---- MODULE Spec2Model ----
(***************************************************************************)
(* mrmd-monitor: a headless Yjs peer that claims execution requests        *)
(* written into the shared map 'executions', drives them against a         *)
(* runtime and writes the output into the shared text.                     *)
(*                                                                         *)
(* One execution record, a browser and the monitors, each peer with its    *)
(* own replica of the map:                                                 *)
(*   Spec        the monitors race to claim the record                     *)
(*   SpecRace    two monitors race and the runtime streams                 *)
(*   SpecDrive   one monitor drives the execution, with polling, failures, *)
(*               cancel and disconnect                                     *)
(*   FairDrive   SpecDrive with the fairness of the event loop             *)
(*   SpecStdin   one monitor drives an execution that prompts for input    *)
(*               and displays; FairStdin adds the fairness                 *)
(*   SpecRefire  one monitor while the browser writes the ready record a   *)
(*               second time                                               *)
(*   SpecExecute one call of ExecutionHandler.execute, line by line        *)
(*   SpecSse     the read loop of execute, chunk by chunk                  *)
(*   SpecApi     direct calls of the CoordinationProtocol                  *)
(*   SpecMutators  direct calls of every mutator                           *)
(*   SpecReadme  direct calls on the request record of the README         *)
(*   SpecConnect a monitor connects, disconnects and connects again        *)
(* The monitor's replica of the text and the terminal projector:           *)
(*   SpecWriter  the stdout and stderr callbacks of one execution and      *)
(*               direct calls of the DocumentWriter                        *)
(*   SpecProjector  one TerminalBuffer written chunk by chunk             *)
(*   SpecErase      the same with the erase commands K and J               *)
(*   SpecOverwrite  the same with carriage return and cursor up            *)
(*   SpecProgress   the same with the redraws of a progress bar            *)
(***************************************************************************)
EXTENDS Integers, Sequences, FiniteSets, TLC

Null == "null"
Now == "now"

Browser == "browser"
Monitors == {"m1", "m2"}
Peers == {Browser} \cup Monitors

\* Most SSE events the runtime emits in one stream.
MaxEvents == 2
\* Most SSE events of one stream while two monitors race.
MaxRaceEvents == 1
\* Most _handleReady invocations of one monitor that are in flight at once.
MaxTasks == 2
\* const maxAttempts = 50 of _handleReady.
maxAttempts == 50
\* Most calls of the DocumentWriter during one execution.
MaxCalls == 3
\* Most chunks written to one TerminalBuffer.
MaxWrites == 4
\* Most times the browser calls setOutputBlockReady for one execution.
MaxReadyWrites == 2
\* Most lines read from one event stream.
MaxLines == 4
\* Most direct calls of the CoordinationProtocol.
MaxApiCalls == 2

Terminal == {"completed", "error", "cancelled"}

VARIABLES
  clientID,     \* ydoc.clientID of every peer
  items,        \* every Y.Map item ever created for the key execId
  known,        \* the items each peer's replica has integrated
  statusWrites, \* history: the status writes made, with the status they replaced
  blockAt,      \* whether the output block is in the peer's replica of the text
  synced,       \* monitor: _synced (coordination and observer installed)
  processing,   \* monitor: whether execId is in _processingExecutions
  active,       \* monitor: the task whose controller _activeExecutions holds, 0 if none
  tasks,        \* monitor: the _handleReady invocations in flight
  entered,      \* history: _handleReady went past its isActive guard
  ended,        \* history: a drive that wrote running has returned
  edits,        \* history: the claimedBy a monitor's replica held when it edited the text
  posts,        \* history: the POSTs to <runtimeUrl>/input, with their outcome
  lastCall,     \* history: the last call that returned, with what it returned
  currentEvent, \* execute: the event the last "event: " line named
  callbacks,    \* history: the callbacks execute has invoked
  lines,        \* history: the lines execute has read from the stream
  sseBuffer,    \* execute: buffer, the incomplete line at the end of the last chunk
  ytext,        \* writer: the shared text in the monitor's replica
  buffer,       \* writer: the TerminalBuffer of _handleReady
  chunks,       \* history: the stdout and stderr chunks received, concatenated
  calls,        \* history: the callbacks and writer calls made
  args,         \* history: the chunk or content of each of them
  doc0,         \* history: the text before the first call
  txns,         \* history: the text after each transaction on the shared text
  done          \* writer: the stream has closed

coordVars == <<clientID, items, known, statusWrites, blockAt, synced, processing,
               active, tasks, entered, ended, edits, posts, lastCall,
               currentEvent, callbacks, lines, sseBuffer>>

writerVars == <<ytext, buffer, chunks, calls, args, doc0, txns, done>>

vars == <<coordVars, writerVars>>

-----------------------------------------------------------------------------
(* The execution record, requestExecution's value. Timestamps are "now".   *)

Undefined == "undefined"

Session == "session-1"

RuntimeUrl == "http://runtime"

NewRecord(by) ==
  [runtimeUrl |-> RuntimeUrl, session |-> Session,
   status |-> "requested", requestedBy |-> by, claimedBy |-> Null,
   claimedAt |-> Null, outputBlockReady |-> FALSE, outputPosition |-> Null,
   startedAt |-> Null,
   completedAt |-> Null, stdinRequest |-> Null, stdinResponse |-> Null,
   result |-> Null, error |-> Null, displayData |-> <<>>]

\* The state as one value w, so that a handler is a function of it.
World ==
  [ids |-> clientID, items |-> items, known |-> known, writes |-> statusWrites,
   blk |-> blockAt, synced |-> synced, processing |-> processing,
   active |-> active, tasks |-> tasks, entered |-> entered, ended |-> ended,
   edits |-> edits, posts |-> posts, last |-> lastCall,
   cur |-> currentEvent, cbs |-> callbacks, lines |-> lines, buf |-> sseBuffer]

SetCoord(w) ==
  /\ clientID' = w.ids
  /\ items' = w.items
  /\ known' = w.known
  /\ statusWrites' = w.writes
  /\ blockAt' = w.blk
  /\ synced' = w.synced
  /\ processing' = w.processing
  /\ active' = w.active
  /\ tasks' = w.tasks
  /\ entered' = w.entered
  /\ ended' = w.ended
  /\ edits' = w.edits
  /\ posts' = w.posts
  /\ lastCall' = w.last
  /\ currentEvent' = w.cur
  /\ callbacks' = w.cbs
  /\ lines' = w.lines
  /\ sseBuffer' = w.buf

SetWorld(w) == SetCoord(w) /\ UNCHANGED writerVars

-----------------------------------------------------------------------------
(* Y.Map: every set of a key creates an item whose origin is the item that *)
(* held the key in the writer's replica. A replica orders the items of a   *)
(* key by origin, concurrent items of one origin by ascending client id,   *)
(* each followed by the items that descend from it; the last item is the   *)
(* key's value.                                                            *)

RECURSIVE Descend(_, _, _, _)
Descend(ids, its, S, i) ==
  LET ch == {j \in S : its[j].origin = i}
      top == {j \in ch : \A k \in ch : ids[its[k].client] <= ids[its[j].client]}
  IN IF ch = {} THEN i
     ELSE CHOOSE r \in {Descend(ids, its, S, j) : j \in top} : TRUE

Current(w, p) ==
  CHOOSE r \in {Descend(x.ids, x.items, x.known[p], 0) : x \in {w}} : TRUE

\* executions.get(execId), and whether it is defined
Has(w, p) == w.known[p] # {}

Get(w, p) == w.items[Current(w, p)].val

StatusOps == {"claimExecution", "setOutputBlockReady", "setRunning",
              "setCompleted", "setError", "cancel"}

\* executions.set(execId, v)
Put(w, p, v, op) ==
  LET i == Len(w.items) + 1
      old == IF Has(w, p) THEN Get(w, p).status ELSE Null
  IN [w EXCEPT
        !.items = Append(@, [client |-> p, origin |-> Current(w, p), op |-> op,
                             blk |-> (p = Browser /\ w.blk[p]), val |-> v]),
        !.known = [@ EXCEPT ![p] = @ \cup {i}],
        !.writes = IF op \in StatusOps
                   THEN @ \cup {[by |-> p, op |-> op, status |-> v.status, over |-> old]}
                   ELSE @]

-----------------------------------------------------------------------------
(* CoordinationProtocol                                                     *)

CanClaim(w, p) ==
  /\ Has(w, p)
  /\ Get(w, p).status = "requested"
  /\ Get(w, p).claimedBy = Null

\* A claim that sets the status and leaves claimedBy alone
claimWithoutOwner(w, p) ==
  IF ~CanClaim(w, p) THEN w
  ELSE Put(w, p, [Get(w, p) EXCEPT !.status = "claimed", !.claimedAt = Now],
           "claimExecution")

\* A claim that does not look at the status
claimAnyStatus(w, p) ==
  IF ~Has(w, p) THEN w
  ELSE Put(w, p, [Get(w, p) EXCEPT !.status = "claimed", !.claimedBy = p,
                                   !.claimedAt = Now], "claimExecution")

claimExecution(w, p) ==
  IF ~CanClaim(w, p) THEN w
  ELSE Put(w, p, [Get(w, p) EXCEPT !.status = "claimed", !.claimedBy = p,
                                   !.claimedAt = Now], "claimExecution")

\* setOutputBlockReady without the spread of the old record
readyWithoutSpread(w, p, outputPosition) ==
  IF ~Has(w, p) THEN w
  ELSE Put(w, p, [NewRecord(Get(w, p).requestedBy) EXCEPT
                    !.status = "ready", !.outputBlockReady = TRUE,
                    !.outputPosition = outputPosition],
           "setOutputBlockReady")

setOutputBlockReady(w, p, outputPosition) ==
  IF ~Has(w, p) THEN w
  ELSE Put(w, p, [Get(w, p) EXCEPT !.status = "ready", !.outputBlockReady = TRUE,
                                   !.outputPosition = outputPosition],
           "setOutputBlockReady")

setRunning(w, p) ==
  IF ~Has(w, p) THEN w
  ELSE Put(w, p, [Get(w, p) EXCEPT !.status = "running", !.startedAt = Now],
           "setRunning")

\* displayData ?? exec.displayData
setCompleted(w, p, result, displayData) ==
  IF ~Has(w, p) THEN w
  ELSE Put(w, p, [Get(w, p) EXCEPT
                    !.status = "completed", !.completedAt = Now,
                    !.result = IF result = Undefined THEN Null ELSE result,
                    !.displayData = IF displayData = Undefined THEN @
                                    ELSE displayData],
           "setCompleted")

setError(w, p, error) ==
  IF ~Has(w, p) THEN w
  ELSE Put(w, p, [Get(w, p) EXCEPT !.status = "error", !.completedAt = Now,
                                   !.error = error], "setError")

\* A stdinRequest is modelled by its prompt and a stdinResponse by its
\* text: password and the timestamps are not read by the monitor.
\* A requestStdin that writes a fresh record around the prompt
requestStdinWithoutSpread(w, p, prompt) ==
  IF ~Has(w, p) THEN w
  ELSE Put(w, p, [NewRecord(Get(w, p).requestedBy) EXCEPT !.stdinRequest = prompt],
           "requestStdin")

requestStdin(w, p, prompt) ==
  IF ~Has(w, p) THEN w
  ELSE Put(w, p, [Get(w, p) EXCEPT !.stdinRequest = prompt,
                                   !.stdinResponse = Null], "requestStdin")

respondStdin(w, p, text) ==
  IF ~Has(w, p) THEN w
  ELSE Put(w, p, [Get(w, p) EXCEPT !.stdinResponse = text], "respondStdin")

clearStdinRequest(w, p) ==
  IF ~Has(w, p) THEN w
  ELSE Put(w, p, [Get(w, p) EXCEPT !.stdinRequest = Null, !.stdinResponse = Null],
           "clearStdinRequest")

addDisplayData(w, p, display) ==
  IF ~Has(w, p) THEN w
  ELSE Put(w, p, [Get(w, p) EXCEPT !.displayData = Append(@, display)],
           "addDisplayData")

-----------------------------------------------------------------------------
(* RuntimeMonitor and ExecutionHandler. A task is one invocation of        *)
(* _handleReady: "poll" in the wait loop's sleep, "fetch" awaiting the     *)
(* response of execute's POST, "stream" awaiting the next chunk.           *)

Idle == [pc |-> "idle", attempts |-> 0, aborted |-> FALSE, n |-> 0, req |-> Null]

\* the POST of execute: session = 'default' when the options name none
\* (the code is not modelled)
executeRequest(runtimeUrl, session) ==
  [url |-> <<runtimeUrl, "/execute/stream">>,
   body |-> [session |-> IF session = Undefined THEN "default" ELSE session,
             storeHistory |-> TRUE]]

HasFreeSlot(w, m) == \E s \in 1..MaxTasks : w.tasks[m][s].pc = "idle"

FreeSlot(w, m) == CHOOSE s \in 1..MaxTasks :
                    /\ w.tasks[m][s].pc = "idle"
                    /\ \A t \in 1..MaxTasks : w.tasks[m][t].pc = "idle" => s <= t

handleRequest(w, m) ==
  IF w.processing[m] THEN w
  ELSE IF CanClaim(w, m)
       THEN [claimExecution(w, m) EXCEPT !.processing[m] = TRUE]
       ELSE w

\* execute up to its first await: the controller is registered under execId
\* (attempts is not read after the wait loop)
\* _handleReady calls it with exec.runtimeUrl, exec.code and the options
\* execId and callbacks.
executeStart(w, m, s) ==
  LET runtimeUrl == IF Has(w, m) THEN Get(w, m).runtimeUrl ELSE RuntimeUrl
  IN [w EXCEPT !.active[m] = s,
               !.tasks[m][s] = [Idle EXCEPT !.pc = "fetch",
                                  !.req = executeRequest(runtimeUrl, Undefined)]]

\* _handleReady after the wait loop found the block. this.coordination is
\* null after disconnect(): setRunning then throws outside the try.
runDrive(w, m, s) ==
  IF w.synced[m] THEN executeStart(setRunning(w, m), m, s)
  ELSE [w EXCEPT !.tasks[m][s] = Idle]

handleReady(w, m) ==
  IF w.active[m] # 0 THEN w
  ELSE LET s == FreeSlot(w, m)
           w1 == [w EXCEPT !.entered[m] = TRUE]
       IN IF w1.blk[m] THEN runDrive(w1, m, s)
          ELSE [w1 EXCEPT !.tasks[m][s].pc = "poll"]

\* the id of the one execution, as the key of the map
ExecIdText == "exec-1"

\* ExecutionHandler.sendInput up to its await: the POST it makes. A key
\* whose value is undefined is left out of the body by JSON.stringify.
sendInput(runtimeUrl, session, execId, text) ==
  [url |-> <<runtimeUrl, "/input">>,
   body |-> [session |-> session, exec_id |-> execId, text |-> text]]

\* _handleStdinResponse up to its await: sendInput is called with three
\* arguments, its fourth parameter is undefined
handleStdinResponse(w, m, exec) ==
  IF exec.stdinResponse = Null THEN w
  ELSE [w EXCEPT !.posts = Append(@,
          [by |-> m, outcome |-> "pending",
           req |-> sendInput(exec.runtimeUrl, ExecIdText,
                             exec.stdinResponse, Undefined)])]

WantsRequest(exec) == exec.status = "requested"

WantsInput(exec, m) == exec.stdinResponse # Null /\ exec.claimedBy = m

WantsReady(exec, m) == exec.status = "ready" /\ exec.claimedBy = m

\* the callback _startWatching gives to observe
observer(w, m) ==
  LET exec == Get(w, m)
      w1 == IF WantsRequest(exec) THEN handleRequest(w, m) ELSE w
      w2 == IF WantsReady(exec, m) THEN handleReady(w1, m) ELSE w1
  IN IF WantsInput(exec, m) THEN handleStdinResponse(w2, m, exec) ELSE w2

\* pollWake without the release of the processing slot of line 247
pollWakeKeepsSlot(w, m, s) ==
  LET a == w.tasks[m][s].attempts + 1
      w1 == [w EXCEPT !.tasks[m][s].attempts = a]
  IN IF ~w.blk[m] /\ a < maxAttempts THEN w1
     ELSE IF ~w.blk[m]
          THEN IF w.synced[m]
               THEN [setError(w1, m, "SyncError") EXCEPT !.tasks[m][s] = Idle]
               ELSE [w1 EXCEPT !.tasks[m][s] = Idle]
          ELSE runDrive(w1, m, s)

\* one sleep of the wait loop is over
pollWake(w, m, s) ==
  LET a == w.tasks[m][s].attempts + 1
      w1 == [w EXCEPT !.tasks[m][s].attempts = a]
  IN IF ~w.blk[m] /\ a < maxAttempts THEN w1
     ELSE IF ~w.blk[m]
          THEN IF w.synced[m]
               THEN [setError(w1, m, "SyncError") EXCEPT
                       !.processing[m] = FALSE, !.tasks[m][s] = Idle]
               ELSE [w1 EXCEPT !.tasks[m][s] = Idle]
          ELSE runDrive(w1, m, s)

\* execute's finally, then _handleReady's finally
finishTask(w, m, s) ==
  [w EXCEPT !.active[m] = 0, !.processing[m] = FALSE, !.tasks[m][s] = Idle,
            !.ended[m] = TRUE]

\* how execute ended and which of its callbacks that made it call
ExecuteReturn(m, ret, onError, onDone) ==
  [op |-> "execute", by |-> m, ret |-> ret, onError |-> onError, onDone |-> onDone]

\* fetch or reader.read rejects, or the response is not ok: execute's catch
\* calls onError and rethrows into _handleReady's catch
fetchFail(w, m, s) ==
  LET w1 == [w EXCEPT !.last = ExecuteReturn(m, "throws", TRUE, FALSE)]
  IN IF w.synced[m]
     THEN finishTask(setError(setError(w1, m, "ConnectionError"), m, "MonitorError"), m, s)
     ELSE finishTask(w1, m, s)

\* the stream is done: onDone, return finalResult || { success: true }
streamDone(w, m, s) ==
  finishTask([w EXCEPT !.last = ExecuteReturn(m, "result", FALSE, TRUE)], m, s)

\* an abort that is reported through onError like any other rejection
abortedAsConnectionError(w, m, s) == fetchFail(w, m, s)

\* the aborted fetch or read rejects with AbortError: the catch returns
\* Aborted before it reaches onError
executeAborted(w, m, s) ==
  finishTask([w EXCEPT !.last = ExecuteReturn(m, "Aborted", FALSE, FALSE)], m, s)

EventKinds == {"stdout", "stderr", "result", "error"}

\* _handleEvent with _handleReady's callbacks; what a callback throws is
\* caught by the line loop's try
handleEvent(w, m, s, ev) ==
  LET w1 == [w EXCEPT !.tasks[m][s].n = @ + 1]
  IN CASE ev \in {"stdout", "stderr"} ->
            [w1 EXCEPT !.edits = @ \cup {[by |-> m,
                         claimedBy |-> IF Has(w, m) THEN Get(w, m).claimedBy ELSE Null]}]
       [] ev = "result" ->
            IF w.synced[m] THEN observer(setCompleted(w1, m, "ok", Undefined), m) ELSE w1
       [] ev = "error" ->
            IF w.synced[m] THEN observer(setError(w1, m, "RuntimeError"), m) ELSE w1
       [] ev = "stdin_request" ->
            IF w.synced[m] THEN observer(requestStdin(w1, m, "prompt"), m) ELSE w1
       [] ev = "display" ->
            IF w.synced[m] THEN observer(addDisplayData(w1, m, "display"), m) ELSE w1
       [] ev = "asset" ->
            IF w.synced[m] THEN observer(addDisplayData(w1, m, "asset"), m) ELSE w1
       [] ev = "result with displayData" ->
            IF w.synced[m] THEN observer(setCompleted(w1, m, "ok", <<"display">>), m)
            ELSE w1

\* sendInput's response arrived and parsed: clearStdinRequest; after
\* disconnect() the call throws into the catch
inputOk(w, k) ==
  LET m == w.posts[k].by
      w1 == [w EXCEPT !.posts[k].outcome = "ok"]
  IN IF w.synced[m] THEN observer(clearStdinRequest(w1, m), m) ELSE w1

\* sendInput rejects: the catch logs
inputFail(w, k) == [w EXCEPT !.posts[k].outcome = "failed"]

\* ExecutionHandler.cancel
cancel(w, m) ==
  IF w.active[m] # 0 THEN [w EXCEPT !.tasks[m][w.active[m]].aborted = TRUE] ELSE w

\* RuntimeMonitor.disconnect: cancelAll, unobserve, coordination = null
disconnect(w, m) ==
  [cancel(w, m) EXCEPT !.active[m] = 0, !.synced[m] = FALSE]

-----------------------------------------------------------------------------
(* Strings are sequences of characters; positions count from 0 as in the   *)
(* source.                                                                 *)

ESC == "ESC"   \* '\x1b'
BS == "BS"     \* '\b'
Control == {ESC, BS, "\n", "\r", "\t"}
DigitChars == <<"0", "1", "2", "3", "4", "5", "6", "7", "8", "9">>
ParamChars == {DigitChars[k] : k \in 1..10} \cup {";"}

\* Math.max
Max(a, b) == IF a >= b THEN a ELSE b

\* text[k], and '' where the source reads undefined
CharAt(text, k) == IF k >= 0 /\ k < Len(text) THEN text[k + 1] ELSE ""

\* text.slice(a, b)
slice(text, a, b) == SubSeq(text, a + 1, b)

Occurs(text, pat, k) ==
  /\ k + Len(pat) <= Len(text)
  /\ \A d \in 1..Len(pat) : text[k + d] = pat[d]

\* text.indexOf(pat, from)
indexOf(text, pat, from) ==
  LET hits == {k \in from..Len(text) : Occurs(text, pat, k)}
  IN IF hits = {} THEN -1 ELSE CHOOSE k \in hits : \A h \in hits : k <= h

-----------------------------------------------------------------------------
(* DocumentWriter                                                           *)

Tick == "tick"   \* the backtick

Fence == <<Tick, Tick, Tick>>

MarkerOf(execId) == Fence \o <<"o", "u", "t", "p", "u", "t", ":">> \o execId

\* the while loop of findOutputBlock: the first ``` at the start of a line
RECURSIVE closingPos(_, _)
closingPos(text, searchPos) ==
  IF searchPos >= Len(text) THEN -1
  ELSE LET nextBackticks == indexOf(text, Fence, searchPos)
       IN IF nextBackticks = -1 THEN -1
          ELSE IF nextBackticks = 0 \/ CharAt(text, nextBackticks - 1) = "\n"
               THEN nextBackticks
               ELSE CHOOSE r \in {closingPos(text, k) : k \in {nextBackticks + 3}} : TRUE

NoBlock == [found |-> FALSE, markerStart |-> -1, contentStart |-> -1, contentEnd |-> -1]

findOutputBlock(text, execId) ==
  LET markerStart == indexOf(text, MarkerOf(execId), 0)
      newlineAfterMarker == indexOf(text, <<"\n">>, markerStart)
      contentStart == newlineAfterMarker + 1
      closing == closingPos(text, contentStart)
  IN IF markerStart = -1 THEN NoBlock
     ELSE IF newlineAfterMarker = -1 THEN NoBlock
     ELSE [found |-> TRUE, markerStart |-> markerStart, contentStart |-> contentStart,
           contentEnd |-> IF closing = -1 THEN Len(text) ELSE closing]

hasOutputBlock(text, execId) == findOutputBlock(text, execId).found

\* the text after appendOutput(execId, content)
appendOutput(text, execId, content) ==
  LET block == findOutputBlock(text, execId)
  IN IF ~block.found THEN text
     ELSE slice(text, 0, block.contentEnd) \o content
            \o slice(text, block.contentEnd, Len(text))

\* the text after replaceOutput(execId, content)
replaceOutput(text, execId, content) ==
  LET block == findOutputBlock(text, execId)
  IN IF ~block.found THEN text
     ELSE slice(text, 0, block.contentStart) \o content
            \o slice(text, block.contentEnd, Len(text))

\* The texts after each transaction of replaceOutput: ytext.delete and
\* ytext.insert are called one after the other outside any transact, and so
\* each is a transaction of its own, after which the observers of the text
\* run and one update is emitted to the provider.
replaceOutputTxns(text, execId, content) ==
  LET block == findOutputBlock(text, execId)
      existingLength == block.contentEnd - block.contentStart
      deleted == slice(text, 0, block.contentStart)
                   \o slice(text, block.contentEnd, Len(text))
  IN IF ~block.found THEN <<>>
     ELSE (IF existingLength > 0 THEN <<deleted>> ELSE <<>>)
            \o (IF content # <<>> THEN <<replaceOutput(text, execId, content)>>
                ELSE <<>>)

\* what getOutputContent(execId) returns when the block is found
getOutputContent(text, execId) ==
  LET block == findOutputBlock(text, execId)
  IN slice(text, block.contentStart, block.contentEnd)

-----------------------------------------------------------------------------
(* TerminalBuffer. holes are the indices of _lines that an assignment past *)
(* the end left empty; thrown says that write ended in a TypeError.        *)

NoCursor == [set |-> FALSE, row |-> 0, col |-> 0]

NewBuffer == [lines |-> << <<>> >>, holes |-> {}, row |-> 0, col |-> 0,
              savedCursor |-> NoCursor, thrown |-> FALSE]

Blanks(n) == [k \in 1..n |-> " "]

EmptyLines(n) == [k \in 1..n |-> <<>>]

\* this._lines[this._row] is an array
RowExists(b) == b.row < Len(b.lines) /\ b.row \notin b.holes

ensureRow(b, row) ==
  IF Len(b.lines) <= row
  THEN [b EXCEPT !.lines = @ \o EmptyLines(row + 1 - Len(b.lines))]
  ELSE b

\* a _writeChar that inserts the character and shifts the rest of the line
writeCharInserting(b, char) ==
  LET b1 == ensureRow(b, b.row)
      line == b1.lines[b1.row + 1]
      padded == IF Len(line) < b1.col THEN line \o Blanks(b1.col - Len(line))
                ELSE line
  IN IF b1.row \in b1.holes THEN [b1 EXCEPT !.thrown = TRUE]
     ELSE [b1 EXCEPT !.lines[b1.row + 1] =
                        SubSeq(padded, 1, b1.col) \o <<char>>
                          \o SubSeq(padded, b1.col + 1, Len(padded)),
                     !.col = @ + 1]

writeChar(b, char) ==
  LET b1 == ensureRow(b, b.row)
      line == b1.lines[b1.row + 1]
      padded == IF Len(line) <= b1.col THEN line \o Blanks(b1.col + 1 - Len(line))
                ELSE line
  IN IF b1.row \in b1.holes THEN [b1 EXCEPT !.thrown = TRUE]
     ELSE [b1 EXCEPT !.lines[b1.row + 1] = [padded EXCEPT ![b1.col + 1] = char],
                     !.col = @ + 1]

clearToEndOfLine(b) ==
  IF RowExists(b)
  THEN [b EXCEPT !.lines[b.row + 1] = slice(@, 0, IF b.col < Len(@) THEN b.col ELSE Len(@))]
  ELSE b

clearFromStartOfLine(b) ==
  IF RowExists(b)
  THEN [b EXCEPT !.lines[b.row + 1] =
          [i \in 1..Len(@) |-> IF i - 1 <= b.col THEN " " ELSE @[i]]]
  ELSE b

\* this._lines[this._row] = []
clearLine(b) ==
  IF b.row < Len(b.lines)
  THEN [b EXCEPT !.lines[b.row + 1] = <<>>, !.holes = @ \ {b.row}]
  ELSE [b EXCEPT !.lines = @ \o EmptyLines(b.row + 1 - Len(b.lines)),
                 !.holes = @ \cup (Len(b.lines)..(b.row - 1))]

clearToEndOfScreen(b) ==
  LET b1 == clearToEndOfLine(b)
  IN [b1 EXCEPT !.lines = [r \in 1..Len(@) |-> IF r - 1 > b.row THEN <<>> ELSE @[r]],
                !.holes = {h \in @ : h <= b.row}]

clearFromStartOfScreen(b) ==
  LET n == Max(Len(b.lines), b.row)
      b1 == [b EXCEPT !.lines = [r \in 1..n |-> IF r - 1 < b.row THEN <<>> ELSE @[r]],
                      !.holes = {h \in @ : h >= b.row}]
  IN clearFromStartOfLine(b1)

clearScreen(b) == [b EXCEPT !.lines = << <<>> >>, !.holes = {}, !.row = 0, !.col = 0]

DigitVal(c) == (CHOOSE k \in 1..10 : DigitChars[k] = c) - 1

\* parseInt(field) || 0 of a string of digits
RECURSIVE parseInt(_)
parseInt(field) ==
  IF field = <<>> THEN 0
  ELSE 10 * parseInt(SubSeq(field, 1, Len(field) - 1)) + DigitVal(field[Len(field)])

\* params.split(';').map(n => parseInt(n) || 0)
RECURSIVE splitNums(_)
splitNums(params) ==
  LET k == indexOf(params, <<";">>, 0)
  IN IF k = -1 THEN <<parseInt(params)>>
     ELSE <<parseInt(slice(params, 0, k))>> \o splitNums(slice(params, k + 1, Len(params)))

\* nums[k] || 1
NumOr1(nums, k) == IF k < Len(nums) /\ nums[k + 1] # 0 THEN nums[k + 1] ELSE 1

\* the buffer after the sequence that starts at i, and the next index
parseEscapeSequence(b, text, i) ==
  LET isPrivateMode == CharAt(text, i + 2) = "?"
      j1 == IF isPrivateMode THEN i + 3 ELSE i + 2
      j2 == CHOOSE k \in j1..Max(j1, Len(text)) :
              /\ k >= Len(text) \/ CharAt(text, k) \notin ParamChars
              /\ \A h \in j1..(k - 1) : CharAt(text, h) \in ParamChars
      params == slice(text, j1, j2)
      cmd == CharAt(text, j2)
      nums == IF params = <<>> THEN <<>> ELSE splitNums(params)
      n == NumOr1(nums, 0)
      after ==
        CASE cmd = "A" -> [b EXCEPT !.row = Max(0, b.row - n)]
          [] cmd = "B" -> ensureRow([b EXCEPT !.row = b.row + n], b.row + n)
          [] cmd = "C" -> [b EXCEPT !.col = b.col + n]
          [] cmd = "D" -> [b EXCEPT !.col = Max(0, b.col - n)]
          [] cmd = "E" -> ensureRow([b EXCEPT !.row = b.row + n, !.col = 0], b.row + n)
          [] cmd = "F" -> [b EXCEPT !.row = Max(0, b.row - n), !.col = 0]
          [] cmd = "G" -> [b EXCEPT !.col = Max(0, n - 1)]
          [] cmd \in {"H", "f"} ->
               ensureRow([b EXCEPT !.row = Max(0, NumOr1(nums, 0) - 1),
                                   !.col = Max(0, NumOr1(nums, 1) - 1)],
                         Max(0, NumOr1(nums, 0) - 1))
          [] cmd = "J" -> IF n = 0 \/ params = <<>> THEN clearToEndOfScreen(b)
                          ELSE IF n = 1 THEN clearFromStartOfScreen(b)
                          ELSE IF n = 2 \/ n = 3 THEN clearScreen(b)
                          ELSE b
          [] cmd = "K" -> IF n = 0 \/ params = <<>> THEN clearToEndOfLine(b)
                          ELSE IF n = 1 THEN clearFromStartOfLine(b)
                          ELSE IF n = 2 THEN clearLine(b)
                          ELSE b
          [] cmd = "s" -> [b EXCEPT !.savedCursor = [set |-> TRUE, row |-> b.row,
                                                     col |-> b.col]]
          [] cmd = "u" -> IF b.savedCursor.set
                          THEN [b EXCEPT !.row = b.savedCursor.row,
                                         !.col = b.savedCursor.col]
                          ELSE b
          [] OTHER -> b
  IN [b |-> IF isPrivateMode \/ cmd = "m" THEN b ELSE after, j |-> j2 + 1]

\* one character of write that does not start an escape sequence
\* a write that starts a new line at a carriage return
writeOneCrAsNewline(b, char) ==
  CASE char \in {"\r", "\n"} ->
         ensureRow([b EXCEPT !.row = b.row + 1, !.col = 0], b.row + 1)
    [] char = BS -> [b EXCEPT !.col = Max(0, b.col - 1)]
    [] char = "\t" -> [b EXCEPT !.col = (b.col \div 8) * 8 + 8]
    [] char \notin Control -> writeChar(b, char)
    [] OTHER -> b

writeOne(b, char) ==
  CASE char = "\r" -> [b EXCEPT !.col = 0]
    [] char = "\n" -> ensureRow([b EXCEPT !.row = b.row + 1, !.col = 0], b.row + 1)
    [] char = BS -> [b EXCEPT !.col = Max(0, b.col - 1)]
    [] char = "\t" -> [b EXCEPT !.col = (b.col \div 8) * 8 + 8]
    [] char \notin Control -> writeChar(b, char)
    [] OTHER -> b

\* the while loop of write, from index i
RECURSIVE writeFrom(_, _, _)
writeFrom(b, text, i) ==
  IF i >= Len(text) \/ b.thrown THEN b
  ELSE LET r == IF CharAt(text, i) = ESC /\ CharAt(text, i + 1) = "["
                THEN parseEscapeSequence(b, text, i)
                ELSE [b |-> writeOne(b, CharAt(text, i)), j |-> i + 1]
       IN CHOOSE out \in {writeFrom(x.b, text, x.j) : x \in {r}} : TRUE

write(b, text) == writeFrom([b EXCEPT !.thrown = FALSE], text, 0)

\* lineText.trimEnd()
RECURSIVE trimEnd(_)
trimEnd(line) ==
  IF line # <<>> /\ line[Len(line)] = " " THEN trimEnd(SubSeq(line, 1, Len(line) - 1))
  ELSE line

\* the while loop of toString: trailing empty lines are popped
RECURSIVE popEmpty(_)
popEmpty(output) ==
  IF output # <<>> /\ output[Len(output)] = <<>>
  THEN popEmpty(SubSeq(output, 1, Len(output) - 1))
  ELSE output

\* output.join('\n')
RECURSIVE join(_)
join(output) ==
  IF output = <<>> THEN <<>>
  ELSE IF Len(output) = 1 THEN output[1]
  ELSE join(SubSeq(output, 1, Len(output) - 1)) \o <<"\n">> \o output[Len(output)]

\* toString throws where a line is undefined
toStringThrows(b) == b.holes # {}

toString(b) == join(popEmpty([r \in 1..Len(b.lines) |-> trimEnd(b.lines[r])]))

\* processTerminalOutput
processTerminalOutput(text) == toString(write(NewBuffer, text))

-----------------------------------------------------------------------------
(* The stdout and stderr callbacks of _handleReady and the writer's calls  *)

ExecId == <<"e", "x", "e", "c", "-", "1">>

\* onStdout and onStderr: buffer.write(chunk), replaceOutput(execId,
\* buffer.toString()); what they throw is caught by execute's line loop
onOutput(text, b, chunk) ==
  LET b1 == write(b, chunk)
  IN [buffer |-> b1,
      ytext |-> IF b1.thrown \/ toStringThrows(b1) THEN text
                ELSE replaceOutput(text, ExecId, toString(b1)),
      txns |-> IF b1.thrown \/ toStringThrows(b1) THEN <<>>
               ELSE replaceOutputTxns(text, ExecId, toString(b1))]

-----------------------------------------------------------------------------

\* The state after the browser's requestExecution and the monitors' connect.
NoCall == [op |-> "none"]

CoordStartWith(ids, syn, record) ==
  /\ clientID = ids
  /\ items = <<[client |-> Browser, origin |-> 0, op |-> "requestExecution",
                blk |-> FALSE, val |-> record]>>
  /\ known = [p \in Peers |-> IF p = Browser THEN {1} ELSE {}]
  /\ statusWrites = {}
  /\ blockAt = [p \in Peers |-> FALSE]
  /\ synced = syn
  /\ processing = [m \in Monitors |-> FALSE]
  /\ active = [m \in Monitors |-> 0]
  /\ tasks = [m \in Monitors |-> [s \in 1..MaxTasks |-> Idle]]
  /\ entered = [m \in Monitors |-> FALSE]
  /\ ended = [m \in Monitors |-> FALSE]
  /\ edits = {}
  /\ posts = <<>>
  /\ lastCall = NoCall
  /\ currentEvent = Null
  /\ callbacks = <<>>
  /\ lines = <<>>
  /\ sseBuffer = <<>>

CoordStart(ids, syn) == CoordStartWith(ids, syn, NewRecord(Browser))

\* The writer before the first call, on the text doc
WriterStart(doc) ==
  /\ ytext = doc
  /\ doc0 = doc
  /\ buffer = NewBuffer
  /\ chunks = <<>>
  /\ calls = <<>>
  /\ args = <<>>
  /\ txns = <<>>
  /\ done = FALSE

\* ydoc.clientID: random 32-bit numbers, of which only the order matters
BrowserFirst == [browser |-> 1, m1 |-> 2, m2 |-> 3]

BrowserSecond == [browser |-> 2, m1 |-> 1, m2 |-> 3]

EmptyDoc == <<>>

Start(ids, syn) == CoordStart(ids, syn) /\ WriterStart(EmptyDoc)

\* Every monitor is connected. The browser never writes beside a monitor
\* here and the monitors are alike, so one order of the client ids stands
\* for all.
Init == Start(BrowserFirst, [m \in Monitors |-> TRUE])

\* Yjs integrates an item after its origin and after the writer's earlier items.
Deliverable(p, i) ==
  /\ i \notin known[p]
  /\ items[i].origin \in known[p] \cup {0}
  /\ \A j \in 1..(i - 1) : items[j].client = items[i].client => j \in known[p]

received(w, p, i) ==
  [w EXCEPT !.known[p] = @ \cup {i}, !.blk[p] = @ \/ w.items[i].blk]

\* A remote update reaches a peer; the observer runs when the key's value changed.
Deliver(p, i) ==
  /\ Deliverable(p, i)
  /\ p \in Monitors => synced[p]
  /\ LET w == received(World, p, i)
     IN IF p \in Monitors /\ Current(w, p) = i
        THEN /\ WantsReady(Get(w, p), p) /\ w.active[p] = 0 => HasFreeSlot(w, p)
             /\ SetWorld(observer(w, p))
        ELSE SetWorld(w)

\* The text update that holds the output block reaches a monitor.
DeliverBlock(m) ==
  /\ blockAt[Browser] /\ ~blockAt[m] /\ synced[m]
  /\ SetWorld([World EXCEPT !.blk[m] = TRUE])

\* the RelativePosition the browser passes
Position == "position"

\* The browser sees the claim and calls setOutputBlockReady, after inserting
\* the output block or without it.
BrowserReady(withBlock) ==
  /\ Get(World, Browser).status = "claimed"
  /\ SetWorld(setOutputBlockReady(
       [World EXCEPT !.blk[Browser] = @ \/ withBlock], Browser, Position))

\* The browser calls setOutputBlockReady once more for a record it sees as
\* ready, which the method does not refuse.
BrowserReadyAgain ==
  /\ Get(World, Browser).status = "ready"
  /\ Cardinality({i \in 1..Len(items) : items[i].op = "setOutputBlockReady"})
       < MaxReadyWrites
  /\ SetWorld(setOutputBlockReady(World, Browser, Position))

BrowserInsertBlock ==
  /\ ~blockAt[Browser]
  /\ Get(World, Browser).outputBlockReady
  /\ SetWorld([World EXCEPT !.blk[Browser] = TRUE])

\* The browser writes status cancelled into the record.
BrowserCancel ==
  /\ Get(World, Browser).status \in {"claimed", "ready", "running"}
  /\ SetWorld(Put(World, Browser,
                  [Get(World, Browser) EXCEPT !.status = "cancelled"], "cancel"))

PollWake(m, s) ==
  /\ tasks[m][s].pc = "poll"
  /\ SetWorld(pollWake(World, m, s))

Streaming(m, s) == tasks[m][s].pc \in {"fetch", "stream"} /\ ~tasks[m][s].aborted

FetchOk(m, s) ==
  /\ tasks[m][s].pc = "fetch" /\ ~tasks[m][s].aborted
  /\ SetWorld([World EXCEPT !.tasks[m][s].pc = "stream"])

FetchFail(m, s) ==
  /\ Streaming(m, s)
  /\ SetWorld(fetchFail(World, m, s))

Event(m, s, ev) ==
  /\ tasks[m][s].pc = "stream" /\ ~tasks[m][s].aborted
  /\ tasks[m][s].n < MaxEvents
  /\ SetWorld(handleEvent(World, m, s, ev))

\* The stream closes: onDone, the result is returned.
Close(m, s) ==
  /\ tasks[m][s].pc = "stream" /\ ~tasks[m][s].aborted
  /\ SetWorld(streamDone(World, m, s))

Cancel(m) ==
  /\ active[m] # 0 /\ ~tasks[m][active[m]].aborted
  /\ SetWorld(cancel(World, m))

\* The aborted fetch or read rejects with AbortError: execute returns Aborted.
Aborted(m, s) ==
  /\ tasks[m][s].pc \in {"fetch", "stream"} /\ tasks[m][s].aborted
  /\ SetWorld(executeAborted(World, m, s))

Disconnect(m) ==
  /\ synced[m]
  /\ SetWorld(disconnect(World, m))

\* The browser answers the prompt it sees.
StdinTexts == {"yes", "no"}

BrowserRespondStdin(text) ==
  /\ Get(World, Browser).stdinRequest # Null
  /\ Get(World, Browser).stdinResponse = Null
  /\ SetWorld(respondStdin(World, Browser, text))

InputOk(k) ==
  /\ posts[k].outcome = "pending"
  /\ SetWorld(inputOk(World, k))

InputFail(k) ==
  /\ posts[k].outcome = "pending"
  /\ SetWorld(inputFail(World, k))

\* The monitors race for the record; the browser inserts the output block
\* before it sets ready; the runtime has not answered yet.
Next ==
  \/ \E p \in Peers, i \in 1..Len(items) : Deliver(p, i)
  \/ BrowserReady(TRUE)

Spec == Init /\ [][Next]_vars

RaceEvents == {"stdout", "result"}

\* Two monitors race and the runtime answers and streams.
NextRace ==
  \/ \E p \in Peers, i \in 1..Len(items) : Deliver(p, i)
  \/ BrowserReady(TRUE)
  \/ \E m \in Monitors, s \in 1..MaxTasks : FetchOk(m, s)
  \/ \E m \in Monitors, s \in 1..MaxTasks, ev \in RaceEvents :
       tasks[m][s].n < MaxRaceEvents /\ Event(m, s, ev)
  \/ \E m \in Monitors, s \in 1..MaxTasks : Close(m, s)

SpecRace == Init /\ [][NextRace]_vars

\* One monitor drives the execution: only m1 is connected.
InitDrive ==
  \E ids \in {BrowserFirst, BrowserSecond} : Start(ids, [m \in Monitors |-> m = "m1"])

NextDrive ==
  \/ \E p \in Peers, i \in 1..Len(items) : Deliver(p, i)
  \/ \E m \in Monitors : DeliverBlock(m)
  \/ \E b \in BOOLEAN : BrowserReady(b)
  \/ BrowserInsertBlock
  \/ BrowserCancel
  \/ \E m \in Monitors, s \in 1..MaxTasks : PollWake(m, s)
  \/ \E m \in Monitors, s \in 1..MaxTasks : FetchOk(m, s)
  \/ \E m \in Monitors, s \in 1..MaxTasks : FetchFail(m, s)
  \/ \E m \in Monitors, s \in 1..MaxTasks, ev \in EventKinds : Event(m, s, ev)
  \/ \E m \in Monitors, s \in 1..MaxTasks : Close(m, s)
  \/ \E m \in Monitors : Cancel(m)
  \/ \E m \in Monitors, s \in 1..MaxTasks : Aborted(m, s)
  \/ \E m \in Monitors : Disconnect(m)

SpecDrive == InitDrive /\ [][NextDrive]_vars

\* One monitor drives the execution and the observer fires again for the
\* ready record.
NextRefire ==
  \/ \E p \in Peers, i \in 1..Len(items) : Deliver(p, i)
  \/ \E m \in Monitors : DeliverBlock(m)
  \/ \E b \in BOOLEAN : BrowserReady(b)
  \/ BrowserInsertBlock
  \/ BrowserReadyAgain
  \/ \E m \in Monitors, s \in 1..MaxTasks : PollWake(m, s)
  \/ \E m \in Monitors, s \in 1..MaxTasks : FetchOk(m, s)
  \/ \E m \in Monitors, s \in 1..MaxTasks, ev \in RaceEvents :
       tasks[m][s].n < MaxRaceEvents /\ Event(m, s, ev)
  \/ \E m \in Monitors, s \in 1..MaxTasks : Close(m, s)
  \/ \E m \in Monitors, s \in 1..MaxTasks : Aborted(m, s)
  \/ \E m \in Monitors : Disconnect(m)

SpecRefire == InitDrive /\ [][NextRefire]_vars

\* One monitor drives an execution that prompts for input and displays.
StdinEvents == {"stdin_request", "display", "asset", "result",
                "result with displayData"}

NextStdin ==
  \/ \E p \in Peers, i \in 1..Len(items) : Deliver(p, i)
  \/ BrowserReady(TRUE)
  \/ \E m \in Monitors, s \in 1..MaxTasks : FetchOk(m, s)
  \/ \E m \in Monitors, s \in 1..MaxTasks, ev \in StdinEvents : Event(m, s, ev)
  \/ \E m \in Monitors, s \in 1..MaxTasks : Close(m, s)
  \/ \E text \in StdinTexts : BrowserRespondStdin(text)
  \/ \E k \in 1..Len(posts) : InputOk(k)
  \/ \E k \in 1..Len(posts) : InputFail(k)

SpecStdin == InitDrive /\ [][NextStdin]_vars

\* The event loop runs what is runnable, the network delivers, the runtime
\* answers a POST and closes its stream.
FairStdin ==
  /\ SpecStdin
  /\ WF_vars(\E p \in Peers, i \in 1..Len(items) : Deliver(p, i))
  /\ WF_vars(\E m \in Monitors, s \in 1..MaxTasks : FetchOk(m, s))
  /\ WF_vars(\E m \in Monitors, s \in 1..MaxTasks : Close(m, s))
  /\ WF_vars(\E k \in 1..Len(posts) : InputOk(k) \/ InputFail(k))

-----------------------------------------------------------------------------
(* ExecutionHandler.execute with every callback given, line by line. A     *)
(* line is "event: <name>", "data: <payload>" with a payload that          *)
(* JSON.parse accepts or rejects, or anything else.                        *)

EventLine(name) == [kind |-> "event", text |-> name]

DataLine(payload) == [kind |-> "data", text |-> payload]

SseLines ==
  {EventLine(e) : e \in {"start", "stdout", "result", "done"}}
    \cup {DataLine("json"), DataLine("garbage"), [kind |-> "other", text |-> ""]}

\* the callback _handleEvent invokes for an event, if any
CallbackOf(event) ==
  CASE event = "stdout" -> <<"onStdout">>
    [] event = "stderr" -> <<"onStderr">>
    [] event = "stdin_request" -> <<"onStdinRequest">>
    [] event \in {"display", "asset"} -> <<"onDisplay">>
    [] event = "result" -> <<"onResult">>
    [] event = "error" -> <<"onError">>
    [] OTHER -> <<>>

\* a line loop in which a payload that does not parse ends the stream like
\* a failed read
executeLineStrict(w, m, s, line) ==
  LET w1 == [w EXCEPT !.tasks[m][s].n = @ + 1, !.lines = Append(@, line)]
  IN IF line.kind = "event" THEN [w1 EXCEPT !.cur = line.text]
     ELSE IF line.kind = "data" /\ line.text = "json"
          THEN [w1 EXCEPT !.cbs = @ \o CallbackOf(w.cur)]
     ELSE IF line.kind = "data"
          THEN [fetchFail(w1, m, s) EXCEPT !.cbs = Append(@, "onError")]
     ELSE w1

\* the body of the for loop over the lines of a chunk, for one line
executeLine(w, m, s, line) ==
  LET w1 == [w EXCEPT !.tasks[m][s].n = @ + 1, !.lines = Append(@, line)]
  IN IF line.kind = "event" THEN [w1 EXCEPT !.cur = line.text]
     ELSE IF line.kind = "data" /\ line.text = "json"
          THEN [w1 EXCEPT !.cbs = @ \o CallbackOf(w.cur)]
     ELSE w1

\* a response handler that forgets onStart
executeResponseSilent(w, m, s) == [w EXCEPT !.tasks[m][s].pc = "stream"]

\* the response is ok: onStart, then the read loop
executeResponse(w, m, s) ==
  [w EXCEPT !.tasks[m][s].pc = "stream", !.cbs = Append(@, "onStart")]

\* reader.read() gives done: onDone, return
executeDone(w, m, s) == [streamDone(w, m, s) EXCEPT !.cbs = Append(@, "onDone")]

\* fetch or reader.read() rejects, or the response is not ok
executeFails(w, m, s) == [fetchFail(w, m, s) EXCEPT !.cbs = Append(@, "onError")]

Caller == "m1"

InitExecute == Start(BrowserFirst, [m \in Monitors |-> FALSE])

\* execute(runtimeUrl, code, {execId, callbacks}) up to its first await
ExecuteCall ==
  /\ lastCall = NoCall /\ tasks[Caller][1].pc = "idle"
  /\ SetWorld(executeStart(World, Caller, 1))

Response ==
  /\ tasks[Caller][1].pc = "fetch" /\ ~tasks[Caller][1].aborted
  /\ SetWorld(executeResponse(World, Caller, 1))

ReadLine(line) ==
  /\ tasks[Caller][1].pc = "stream" /\ ~tasks[Caller][1].aborted
  /\ tasks[Caller][1].n < MaxLines
  /\ SetWorld(executeLine(World, Caller, 1, line))

ReadDone ==
  /\ tasks[Caller][1].pc = "stream" /\ ~tasks[Caller][1].aborted
  /\ SetWorld(executeDone(World, Caller, 1))

Fails ==
  /\ Streaming(Caller, 1)
  /\ SetWorld(executeFails(World, Caller, 1))

NextExecute ==
  \/ ExecuteCall
  \/ Response
  \/ \E line \in SseLines : ReadLine(line)
  \/ ReadDone
  \/ Fails
  \/ Cancel(Caller)
  \/ Aborted(Caller, 1)

SpecExecute == InitExecute /\ [][NextExecute]_vars

-----------------------------------------------------------------------------
(* The read loop of execute on the characters of the stream: the transport *)
(* cuts the stream into chunks wherever it likes.                          *)

\* line.startsWith(prefix)
startsWith(line, prefix) == Occurs(line, prefix, 0)

EventPrefix == <<"e", "v", "e", "n", "t", ":", " ">>

DataPrefix == <<"d", "a", "t", "a", ":", " ">>

Whitespace == {" ", "\t", "\r"}

\* String.prototype.trim
RECURSIVE trim(_)
trim(text) ==
  IF text # <<>> /\ text[1] \in Whitespace THEN trim(Tail(text))
  ELSE IF text # <<>> /\ text[Len(text)] \in Whitespace
       THEN trim(SubSeq(text, 1, Len(text) - 1))
  ELSE text

\* the event a name's characters spell
NameOf(text) ==
  CASE text = <<"s", "t", "d", "o", "u", "t">> -> "stdout"
    [] text = <<"r", "e", "s", "u", "l", "t">> -> "result"
    [] OTHER -> "unknown"

\* the payloads for which JSON.parse returns
JsonTexts == {<<"1">>, <<"2">>}

\* the body of the for loop for one complete line; _handleEvent is given
\* the parsed payload
sseLine(w, line) ==
  IF startsWith(line, EventPrefix)
  THEN [w EXCEPT !.cur = NameOf(trim(slice(line, 7, Len(line))))]
  ELSE IF startsWith(line, DataPrefix) /\ slice(line, 6, Len(line)) \in JsonTexts
       THEN [w EXCEPT !.cbs = @ \o [k \in DOMAIN CallbackOf(w.cur) |->
                                      [name |-> CallbackOf(w.cur)[k],
                                       data |-> slice(line, 6, Len(line))]]]
  ELSE w

\* buffer.split('\n'), lines.pop() and the for loop over the lines
RECURSIVE sseFeed(_, _)
sseFeed(w, text) ==
  LET k == indexOf(text, <<"\n">>, 0)
  IN IF k = -1 THEN [w EXCEPT !.buf = text]
     ELSE CHOOSE r \in {sseFeed(x, slice(text, k + 1, Len(text))) :
                        x \in {sseLine(w, slice(text, 0, k))}} : TRUE

\* reader.read() gives a chunk: buffer += decoder.decode(value)
readChunk(w, chunk) == sseFeed(w, w.buf \o chunk)

\* reader.read() gives done: onDone; buffer is not looked at again
readDone(w) == [w EXCEPT !.cbs = Append(@, [name |-> "onDone", data |-> <<>>])]

\* what the transport hands over in one read
SseChunks ==
  {<<"e", "v", "e", "n", "t", ":", " ", "s", "t", "d", "o", "u", "t", "\n">>,
   <<"d", "a", "t", "a", ":", " ">>, <<"1">>, <<"\n">>,
   <<"e", "v", "e", "n", "t", ":", " ", "r", "e">>, <<"s", "u", "l", "t", "\n", "d", "a", "t", "a", ":", " ", "2", "\n">>,
   <<"d", "a", "t", "a", ":", " ", "{", "\n">>}

\* Most reads of one stream.
MaxReads == 4

InitSse == Start(BrowserFirst, [m \in Monitors |-> FALSE])

ReadChunk(chunk) ==
  /\ ~done /\ Len(calls) < MaxReads
  /\ SetCoord(readChunk(World, chunk))
  /\ chunks' = chunks \o chunk
  /\ calls' = Append(calls, "read")
  /\ UNCHANGED <<ytext, buffer, args, doc0, txns, done>>

StreamEnd ==
  /\ ~done
  /\ SetCoord(readDone(World))
  /\ done' = TRUE
  /\ UNCHANGED <<ytext, buffer, chunks, calls, args, doc0, txns>>

NextSse ==
  \/ \E chunk \in SseChunks : ReadChunk(chunk)
  \/ StreamEnd

SpecSse == InitSse /\ [][NextSse]_vars

-----------------------------------------------------------------------------
(* Direct calls of the CoordinationProtocol by three peers, none of which  *)
(* runs a monitor                                                          *)

Absent == [absent |-> TRUE]

\* executions.get(execId) of peer p
Exec(w, p) == IF Has(w, p) THEN Get(w, p) ELSE Absent

ApiOps == {"claimExecution", "setOutputBlockReady", "setRunning",
           "setCompleted", "setError"}

\* the method op called by peer p
apply(w, p, op) ==
  CASE op = "claimExecution" -> claimExecution(w, p)
    [] op = "setOutputBlockReady" -> setOutputBlockReady(w, p, Position)
    [] op = "setRunning" -> setRunning(w, p)
    [] op = "setCompleted" -> setCompleted(w, p, "ok", Undefined)
    [] op = "setError" -> setError(w, p, "RuntimeError")
    [] op = "requestStdin" -> requestStdin(w, p, "prompt")
    [] op = "respondStdin" -> respondStdin(w, p, "yes")
    [] op = "clearStdinRequest" -> clearStdinRequest(w, p)
    [] op = "addDisplayData" -> addDisplayData(w, p, "display")

\* what the method returns: claimExecution a boolean, the others nothing
returned(w, p, op) ==
  IF op = "claimExecution" THEN CanClaim(w, p) ELSE FALSE

InitApi ==
  \E ids \in {BrowserFirst, BrowserSecond} : Start(ids, [m \in Monitors |-> FALSE])

\* An update reaches a peer.
Sync(p, i) ==
  /\ Deliverable(p, i)
  /\ SetWorld(received(World, p, i))

Call(p, op) ==
  /\ Len(calls) < MaxApiCalls
  /\ LET w == apply(World, p, op)
     IN /\ clientID' = w.ids /\ items' = w.items /\ known' = w.known
        /\ statusWrites' = w.writes
        /\ lastCall' = [op |-> op, by |-> p, ret |-> returned(World, p, op),
                        pre |-> Exec(World, p), post |-> Exec(w, p),
                        wrote |-> Len(w.items) > Len(items)]
  /\ calls' = Append(calls, op)
  /\ UNCHANGED <<blockAt, synced, processing, active, tasks, entered, ended,
                 edits, posts, currentEvent, callbacks, lines, sseBuffer,
                 ytext, buffer, chunks, args, doc0, txns, done>>

NextApi ==
  \/ \E p \in Peers, i \in 1..Len(items) : Sync(p, i)
  \/ \E p \in Peers, op \in ApiOps : Call(p, op)

SpecApi == InitApi /\ [][NextApi]_vars

StdinOps == {"requestStdin", "respondStdin", "clearStdinRequest", "addDisplayData"}

RunOps == {"setRunning", "setCompleted", "setError"}

\* Direct calls of the mutators, also by a peer whose replica does not hold
\* the record yet
NextMutators ==
  \/ \E p \in Peers, i \in 1..Len(items) : Sync(p, i)
  \/ \E p \in Peers, op \in StdinOps \cup RunOps \cup {"claimExecution"} : Call(p, op)

SpecMutators == InitApi /\ [][NextMutators]_vars

\* The record of the README's data flow, step 2: status, code, language,
\* runtimeUrl, requestedBy and requestedAt. Reading a property the object
\* does not have gives undefined.
ReadmeRecord ==
  [runtimeUrl |-> RuntimeUrl, session |-> Undefined,
   status |-> "requested", requestedBy |-> Browser, claimedBy |-> Undefined,
   claimedAt |-> Undefined, outputBlockReady |-> Undefined,
   outputPosition |-> Undefined, startedAt |-> Undefined,
   completedAt |-> Undefined, stdinRequest |-> Undefined,
   stdinResponse |-> Undefined, result |-> Undefined, error |-> Undefined,
   displayData |-> Undefined]

InitReadme ==
  /\ CoordStartWith(BrowserFirst, [m \in Monitors |-> FALSE], ReadmeRecord)
  /\ WriterStart(EmptyDoc)

\* Direct calls on the record the README's browser wrote
SpecReadme == InitReadme /\ [][NextApi]_vars

-----------------------------------------------------------------------------
(* The writer of one execution, exec-1, on texts that hold its region      *)

\* the empty region alone
DocRegion == MarkerOf(ExecId) \o <<"\n">> \o Fence

\* the region between two lines of text
DocHead == <<"a", "\n">>

DocInText == DocHead \o DocRegion \o <<"\n", "b", "\n">>

\* the region followed by the region of exec-2, which holds x
DocTwoRegions ==
  DocRegion \o <<"\n">> \o MarkerOf(<<"e", "x", "e", "c", "-", "2">>)
    \o <<"\n", "x", "\n">> \o Fence \o <<"\n">>

\* the region of exec-12 alone, which holds x
DocOtherId ==
  MarkerOf(<<"e", "x", "e", "c", "-", "1", "2">>) \o <<"\n", "x", "\n">> \o Fence

\* the marker of exec-1 as the last characters of the text
DocNoNewline == DocHead \o MarkerOf(ExecId)

Docs == {DocRegion, DocInText, DocTwoRegions, DocOtherId, DocNoNewline}

ChunkHi == <<"h", "i", "\n">>

\* the chunks of stdout and stderr events: a line, a partial line and a
\* progress bar's redraw
Chunks == {ChunkHi, <<"y", "o">>, <<"\r", ESC, "[", "K", "o", "k">>}

\* the contents of direct calls
Contents == {<<"h", "i", "\n">>, <<"h", "i">>}

InitWriter ==
  /\ CoordStart(BrowserFirst, [m \in Monitors |-> FALSE])
  /\ \E doc \in Docs : WriterStart(doc)

\* a stdout or stderr event of the stream (part_001)
OnOutput(kind, chunk) ==
  /\ ~done /\ Len(calls) < MaxCalls
  /\ LET r == onOutput(ytext, buffer, chunk)
     IN ytext' = r.ytext /\ buffer' = r.buffer /\ txns' = txns \o r.txns
  /\ chunks' = chunks \o chunk
  /\ calls' = Append(calls, kind)
  /\ args' = Append(args, chunk)
  /\ UNCHANGED <<doc0, done, coordVars>>

ReplaceOutput(content) ==
  /\ ~done /\ Len(calls) < MaxCalls
  /\ ytext' = replaceOutput(ytext, ExecId, content)
  /\ txns' = txns \o replaceOutputTxns(ytext, ExecId, content)
  /\ calls' = Append(calls, "replaceOutput")
  /\ args' = Append(args, content)
  /\ UNCHANGED <<buffer, chunks, doc0, done, coordVars>>

\* appendOutput, which the stdout and stderr callbacks of part_002 call
AppendOutput(content) ==
  /\ ~done /\ Len(calls) < MaxCalls
  /\ ytext' = appendOutput(ytext, ExecId, content)
  /\ txns' = txns \o (IF hasOutputBlock(ytext, ExecId) THEN <<ytext'>> ELSE <<>>)
  /\ calls' = Append(calls, "appendOutput")
  /\ args' = Append(args, content)
  /\ UNCHANGED <<buffer, chunks, doc0, done, coordVars>>

\* the result event and the end of the stream: no callback edits the text
Done ==
  /\ ~done
  /\ done' = TRUE
  /\ UNCHANGED <<ytext, buffer, chunks, calls, args, doc0, txns, coordVars>>

NextWriter ==
  \/ \E kind \in {"stdout", "stderr"}, chunk \in Chunks : OnOutput(kind, chunk)
  \/ \E content \in Contents : ReplaceOutput(content)
  \/ \E content \in Contents : AppendOutput(content)
  \/ Done

SpecWriter == InitWriter /\ [][NextWriter]_vars

-----------------------------------------------------------------------------
(* One TerminalBuffer that is written chunk by chunk                        *)

\* pieces of "ab", "\r" and ESC [ 2 K, whole and cut at every place
Pieces == {<<"a", "b">>, <<"\r">>, <<ESC, "[", "2", "K">>,
           <<ESC>>, <<"[">>, <<"2">>, <<"K">>}

InitProjector ==
  /\ CoordStart(BrowserFirst, [m \in Monitors |-> FALSE])
  /\ WriterStart(EmptyDoc)

\* buffer.write(chunk)
Write(chunk) ==
  /\ Len(calls) < MaxWrites
  /\ buffer' = write(buffer, chunk)
  /\ chunks' = chunks \o chunk
  /\ calls' = Append(calls, "write")
  /\ args' = Append(args, chunk)
  /\ UNCHANGED <<ytext, doc0, txns, done, coordVars>>

NextProjector == \E chunk \in Pieces : Write(chunk)

SpecProjector == InitProjector /\ [][NextProjector]_vars

\* CSI sequence: ESC [ params cmd
Csi(params, cmd) == <<ESC, "[">> \o params \o <<cmd>>

\* text, a new line and the erase commands, with and without a parameter
ErasePieces ==
  {<<"a", "b">>, <<"\n">>, Csi(<<>>, "D"),
   Csi(<<>>, "K"), Csi(<<"0">>, "K"), Csi(<<>>, "J"), Csi(<<"0">>, "J"),
   Csi(<<"2">>, "J"), Csi(<<"3">>, "J")}

NextErase == \E chunk \in ErasePieces : Write(chunk)

SpecErase == InitProjector /\ [][NextErase]_vars

\* the pieces of "hi\rHELLO" and of "line1\nline2\r" ESC [ 1 A "over"
OverwritePieces ==
  {<<"h", "i">>, <<"\r", "H", "E", "L", "L", "O">>,
   <<"l", "i", "n", "e", "1", "\n">>, <<"l", "i", "n", "e", "2", "\r">>,
   Csi(<<"1">>, "A"), <<"o", "v", "e", "r">>}

NextOverwrite == \E chunk \in OverwritePieces : Write(chunk)

SpecOverwrite == InitProjector /\ [][NextOverwrite]_vars

\* the bodies of a progress bar's redraws
Bodies == {<<"a">>, <<"b", "c">>, <<"d", "e", "f">>, <<"g", " ">>}

NextProgress == \E body \in Bodies : Write(<<"\r">> \o body)

SpecProgress == InitProjector /\ [][NextProgress]_vars

-----------------------------------------------------------------------------
(* connect(): the first sync brings the server's state into the monitor's  *)
(* replica, then the sync handler installs the observer and scans the map. *)

\* a scan that looks for requested records only
checkOnlyRequested(w, m) ==
  IF ~Has(w, m) THEN w
  ELSE IF Get(w, m).status = "requested" THEN observer(handleRequest(w, m), m)
  ELSE w

\* _checkExistingRequests: the requested records, then the ready records
\* this client claimed. The observer is installed, so it runs for the
\* claim the scan writes.
checkExistingRequests(w, m) ==
  IF ~Has(w, m) THEN w
  ELSE LET w1 == IF Get(w, m).status = "requested"
                 THEN observer(handleRequest(w, m), m)
                 ELSE w
       IN IF WantsReady(Get(w1, m), m) THEN handleReady(w1, m) ELSE w1

\* the updates S of the sync step 2 message are integrated
syncStep(w, m, S) ==
  [w EXCEPT !.known[m] = @ \cup S,
            !.blk[m] = @ \/ \E i \in S : w.items[i].blk]

\* the sync handler of connect: _synced, coordination, writer,
\* _startWatching
connect(w, m) ==
  LET w1 == [w EXCEPT !.synced[m] = TRUE,
                      !.last = [op |-> "connect", by |-> m, pre |-> Exec(w, m)]]
  IN checkExistingRequests(w1, m)

\* what the server can hold: items whose origins and whose writers' earlier
\* items it holds too
Closed(S) ==
  \A i \in S :
    /\ items[i].origin \in S \cup {0}
    /\ \A j \in 1..(i - 1) : items[j].client = items[i].client => j \in S

Connect(m, S) ==
  /\ ~synced[m] /\ Len(calls) < MaxApiCalls
  /\ known[m] \subseteq S /\ Closed(S)
  /\ LET w == syncStep(World, m, S)
     IN /\ Has(w, m) /\ WantsReady(Get(w, m), m) /\ w.active[m] = 0
            => HasFreeSlot(w, m)
        /\ SetCoord(connect(w, m))
  /\ calls' = Append(calls, "connect")
  /\ UNCHANGED <<ytext, buffer, chunks, args, doc0, txns, done>>

Connecting == "m1"

Others == Peers \ {Connecting}

\* what the other peers call while the monitor is away
ConnectOps == {"claimExecution", "setRunning", "setCompleted"}

InitConnect == Start(BrowserFirst, [m \in Monitors |-> FALSE])

\* The browser and another peer write the record while the monitor is away;
\* the monitor connects, works, disconnects and connects again.
NextConnect ==
  \/ \E p \in Others, i \in 1..Len(items) : Sync(p, i)
  \/ \E p \in Others, op \in ConnectOps : Call(p, op)
  \/ \E S \in SUBSET (1..Len(items)) : Connect(Connecting, S)
  \/ \E i \in 1..Len(items) : Deliver(Connecting, i)
  \/ DeliverBlock(Connecting)
  \/ \E b \in BOOLEAN : BrowserReady(b)
  \/ \E s \in 1..MaxTasks : PollWake(Connecting, s)
  \/ \E s \in 1..MaxTasks : FetchOk(Connecting, s)
  \/ \E s \in 1..MaxTasks : Close(Connecting, s)
  \/ \E s \in 1..MaxTasks : Aborted(Connecting, s)
  \/ Disconnect(Connecting)

SpecConnect == InitConnect /\ [][NextConnect]_vars

\* What the event loop, the network and the runtime do sooner or later:
\* updates are delivered, timers fire, a request is answered or fails, a
\* stream goes on, closes or fails, an aborted request rejects. Nothing
\* obliges the browser to cancel or the operator to disconnect.
FairDrive ==
  /\ SpecDrive
  /\ WF_vars(\E p \in Peers, i \in 1..Len(items) : Deliver(p, i))
  /\ WF_vars(\E m \in Monitors : DeliverBlock(m))
  /\ WF_vars(\E m \in Monitors, s \in 1..MaxTasks : PollWake(m, s))
  /\ WF_vars(\E m \in Monitors, s \in 1..MaxTasks : FetchOk(m, s) \/ FetchFail(m, s))
  /\ WF_vars(\E m \in Monitors, s \in 1..MaxTasks :
               \/ \E ev \in EventKinds : Event(m, s, ev)
               \/ Close(m, s)
               \/ FetchFail(m, s))
  /\ WF_vars(\E m \in Monitors, s \in 1..MaxTasks : Aborted(m, s))

-----------------------------------------------------------------------------
(* Claims                                                                   *)

\* The peers whose claimExecution wrote the record
Claimers == {items[i].client : i \in {j \in 1..Len(items) : items[j].op = "claimExecution"}}

\* Every replica has integrated every item
Converged == \A p \in Peers : known[p] = 1..Len(items)

\* claimedBy of the record in p's replica
ClaimedByAt(p) == IF known[p] = {} THEN Null ELSE Get(World, p).claimedBy

\* status of the record in p's replica
StatusAt(p) == IF known[p] = {} THEN Null ELSE Get(World, p).status

\* C1: when both monitors have claimed the record and the browser answers
\* each claim it observes with setOutputBlockReady, at most one monitor ever
\* enters _handleReady.
C1_AtMostOneMonitorEntersHandleReady ==
  Claimers = Monitors => Cardinality({m \in Monitors : entered[m]}) <= 1

\* C2: once the replicas have converged after the monitors' claimExecution
\* calls, every replica holds the same record and its claimedBy is one of
\* the callers.
C2_ConvergedClaimHasOneOwner ==
  Converged /\ Claimers # {} =>
    /\ \A p, q \in Peers : Get(World, p) = Get(World, q)
    /\ \A p \in Peers : ClaimedByAt(p) \in Claimers

\* C2 witness: both monitors called claimExecution and the replicas converged
C2_BothClaimedAndConverged == Converged /\ Claimers = Monitors

\* C3: under fairness a record the browser sees running is eventually seen
\* completed, error or cancelled.
C3_RunningLeadsToTerminal ==
  (StatusAt(Browser) = "running") ~> (StatusAt(Browser) \in Terminal)

\* C4: the monitor issues no status write over a record whose status is
\* completed, error or cancelled in its replica.
C4_TerminalIsAbsorbing ==
  \A wr \in statusWrites : wr.by \in Monitors => wr.over \notin Terminal

MonitorEdges == {<<"requested", "claimed">>, <<"ready", "running">>,
                 <<"running", "completed">>, <<"running", "error">>}

\* C5: every status write of a monitor follows an edge of the state machine:
\* claimed over requested, running over ready, completed or error over
\* running.
C5_MonitorWritesFollowEdges ==
  \A wr \in statusWrites : wr.by \in Monitors => <<wr.over, wr.status>> \in MonitorEdges

C7_EditorHoldsTheClaim == \A e \in edits : e.claimedBy = e.by

\* Only stdout and stderr callbacks have edited the text
OnlyStream == calls # <<>> /\ \A k \in 1..Len(calls) : calls[k] \in {"stdout", "stderr"}

\* C8: after each stdout or stderr event the content of the output region
\* is the terminal projection of the chunks received so far.
C8_RegionIsProjectionOfStream ==
  OnlyStream =>
    /\ hasOutputBlock(ytext, ExecId)
    /\ getOutputContent(ytext, ExecId) = processTerminalOutput(chunks)

\* C9: after stdout "hi\n", the result and the end of the stream, the text
\* contains the marker line, the line "hi" and the closing fence on a line
\* of its own.
C9_HappyPathText ==
  calls = <<"stdout">> /\ chunks = ChunkHi /\ done =>
    indexOf(ytext, MarkerOf(ExecId) \o <<"\n", "h", "i", "\n">> \o Fence, 0) # -1

\* C10: whatever calls were made on a text that has the region, the text is
\* the original text with only
\* the content of the region replaced: the marker line and all before it,
\* the closing fence and all after it are unchanged, and the closing fence
\* is still at the start of a line.
C10_OnlyTheRegionChanges ==
  LET block == findOutputBlock(doc0, ExecId)
      head == slice(doc0, 0, block.contentStart)
      tail == slice(doc0, block.contentEnd, Len(doc0))
  IN calls # <<>> /\ block.found =>
       /\ Len(ytext) >= Len(head) + Len(tail)
       /\ slice(ytext, 0, Len(head)) = head
       /\ slice(ytext, Len(ytext) - Len(tail), Len(ytext)) = tail
       /\ CharAt(ytext, Len(ytext) - Len(tail) - 1) = "\n"

\* The last two calls were replaceOutput with the same content
ReplacedTwice ==
  /\ Len(calls) >= 2
  /\ calls[Len(calls)] = "replaceOutput" /\ calls[Len(calls) - 1] = "replaceOutput"
  /\ args[Len(args)] = args[Len(args) - 1]

\* C11: replaceOutput(execId, X) directly after replaceOutput(execId, X)
\* leaves the text as the first call left it.
C11_ReplaceOutputIsIdempotent ==
  [][ReplacedTwice' => ytext' = ytext]_vars

\* The step in which the wait loop of a connected monitor gives up: the
\* 50th sleep is over and the block is not in the monitor's text.
WaitLoopGivesUp(m, s) ==
  /\ synced[m]
  /\ tasks[m][s].pc = "poll" /\ tasks[m][s].attempts = maxAttempts - 1
  /\ ~blockAt[m]
  /\ tasks'[m][s].pc = "idle"

\* C12: when the output region has not appeared after 50 polls, the record
\* in the monitor's replica has status error with error SyncError, no stream
\* is open, the monitor never wrote running, and execId is out of the
\* processing set.
C12_SyncErrorAfterFiftyPolls ==
  [][\A m \in Monitors, s \in 1..MaxTasks :
       WaitLoopGivesUp(m, s) =>
         /\ StatusAt(m)' = "error"
         /\ Get(World, m)'.error = "SyncError"
         /\ active'[m] = 0
         /\ \A t \in 1..MaxTasks : tasks'[m][t].pc \notin {"fetch", "stream"}
         /\ \A wr \in statusWrites' : wr.by = m => wr.op # "setRunning"
         /\ ~processing'[m]]_vars

\* C12 witness: the monitor entered _handleReady, its replica holds the
\* SyncError and the processing set is empty
C12_SyncErrorWritten ==
  \E m \in Monitors :
    /\ entered[m] /\ ~processing[m] /\ ~blockAt[m]
    /\ StatusAt(m) = "error" /\ Get(World, m).error = "SyncError"

\* The browser has written a stdinResponse
Responded == \E i \in 1..Len(items) : items[i].op = "respondStdin"

\* every stdinResponse the browser wrote was POSTed to the runtime
Forwarded ==
  \A i \in 1..Len(items) :
    items[i].op = "respondStdin" =>
      \E k \in 1..Len(posts) : items[i].val.stdinResponse
                                 \in {posts[k].req.body.exec_id, posts[k].req.body.text}

StdinCleared(p) ==
  Has(World, p) /\ Get(World, p).stdinRequest = Null /\ Get(World, p).stdinResponse = Null

\* C13: once the browser has written a stdinResponse the monitor forwards
\* it, and unless a forward fails the record in the monitor's replica
\* eventually has stdinRequest = null and stdinResponse = null; the record
\* is cleared only after a forward succeeded.
C13_StdinRoundTrip ==
  /\ Responded ~> Forwarded
  /\ Responded ~> (\/ \E m \in Monitors : synced[m] /\ StdinCleared(m)
                   \/ \E k \in 1..Len(posts) : posts[k].outcome = "failed")
  /\ [](\A i \in 1..Len(items) :
          items[i].op = "clearStdinRequest" =>
            \E k \in 1..Len(posts) : posts[k].outcome = "ok")

\* C14: every POST to <runtimeUrl>/input carries the record's session, the
\* execution id and a stdinResponse text the browser wrote.
C14_InputBodyCarriesSessionIdText ==
  \A k \in 1..Len(posts) :
    /\ posts[k].req.url = <<RuntimeUrl, "/input">>
    /\ posts[k].req.body.session = Session
    /\ posts[k].req.body.exec_id = ExecIdText
    /\ posts[k].req.body.text \in StdinTexts

\* C15: an execute whose controller was aborted while it awaited the
\* response or a chunk resolves to the Aborted result without calling
\* onError or onDone, writes nothing to the record, and leaves execId out of
\* the active executions.
C15_CancelResolvesToAborted ==
  [][\A m \in Monitors, s \in 1..MaxTasks :
       /\ tasks[m][s].pc \in {"fetch", "stream"} /\ tasks[m][s].aborted
       /\ tasks'[m][s].pc = "idle"
       => /\ lastCall' = ExecuteReturn(m, "Aborted", FALSE, FALSE)
          /\ items' = items
          /\ active'[m] = 0]_vars

\* C15 witness: cancel was called on a connected monitor and execute has
\* returned Aborted
C15_CancelledExecuteReturned ==
  \E m \in Monitors :
    /\ synced[m] /\ active[m] = 0
    /\ lastCall = ExecuteReturn(m, "Aborted", FALSE, FALSE)

IsPrefix(a, b) == Len(a) <= Len(b) /\ SubSeq(b, 1, Len(a)) = a

\* displayData of the record in p's replica
DisplayDataAt(p) == IF Has(World, p) THEN Get(World, p).displayData ELSE <<>>

\* C16: in every replica each value of displayData has the value before it
\* as a prefix.
C16_DisplayDataIsAppendOnly ==
  [][\A p \in Peers : IsPrefix(DisplayDataAt(p), DisplayDataAt(p)')]_vars

\* what toString gives, or that it throws
Snapshot(b) == IF toStringThrows(b) THEN <<"throws">> ELSE toString(b)

\* C17: the buffer written chunk by chunk has the snapshot, row and column
\* of a fresh buffer to which the concatenation of the chunks is written
\* at once.
C17_ChunkBoundaryIndependence ==
  LET whole == write(NewBuffer, chunks)
  IN /\ Snapshot(buffer) = Snapshot(whole)
     /\ buffer.row = whole.row
     /\ buffer.col = whole.col

\* the text has a line that is the opening marker of execId
HasMarkerLine(text, execId) ==
  \E k \in 0..Len(text) :
    /\ Occurs(text, MarkerOf(execId), k)
    /\ k = 0 \/ CharAt(text, k - 1) = "\n"
    /\ CharAt(text, k + Len(MarkerOf(execId))) = "\n"

\* C18: findOutputBlock(execId) finds a block, and so the writer edits the
\* text, only where the text has an opening marker line of exactly execId.
C18_BlockFoundOnlyForExactId ==
  [][(hasOutputBlock(ytext, ExecId) \/ ytext' # ytext)
       => HasMarkerLine(ytext, ExecId)]_vars

\* C19: claimExecution returns false and writes nothing when the record is
\* absent, its status is not requested or claimedBy is not null; otherwise
\* it returns true and the record becomes the old record with status
\* claimed, claimedBy the caller and claimedAt set.
C19_ClaimExecutionContract ==
  lastCall.op = "claimExecution" =>
    IF lastCall.pre = Absent
    THEN ~lastCall.ret /\ ~lastCall.wrote
    ELSE IF lastCall.pre.status # "requested" \/ lastCall.pre.claimedBy # Null
         THEN ~lastCall.ret /\ ~lastCall.wrote /\ lastCall.post = lastCall.pre
         ELSE /\ lastCall.ret /\ lastCall.wrote
              /\ lastCall.post = [lastCall.pre EXCEPT !.status = "claimed",
                                                     !.claimedBy = lastCall.by,
                                                     !.claimedAt = Now]

\* C19 witness: a claim that was refused on a record another peer had claimed
C19_ClaimRefused ==
  /\ lastCall.op = "claimExecution" /\ ~lastCall.ret
  /\ lastCall.pre # Absent /\ lastCall.pre.status = "claimed"
  /\ \E i \in 1..Len(items) :
       items[i].op = "claimExecution" /\ items[i].client # lastCall.by

\* C20: setOutputBlockReady turns a claimed record into the old record with
\* status ready, outputBlockReady true and the position, and leaves the
\* status of a record in any other status as it is.
C20_ReadyOnlyFromClaimed ==
  lastCall.op = "setOutputBlockReady" /\ lastCall.pre # Absent =>
    IF lastCall.pre.status = "claimed"
    THEN lastCall.post = [lastCall.pre EXCEPT !.status = "ready",
                                              !.outputBlockReady = TRUE,
                                              !.outputPosition = Position]
    ELSE lastCall.post.status = lastCall.pre.status

\* The step in which execute of a connected monitor rejects: the fetch or a
\* read failed, or the response was not ok
ExecuteThrows(m, s) ==
  /\ synced[m]
  /\ tasks[m][s].pc \in {"fetch", "stream"} /\ ~tasks[m][s].aborted
  /\ tasks'[m][s].pc = "idle"
  /\ lastCall' = ExecuteReturn(m, "throws", TRUE, FALSE)

\* C21: when the transport fails or the runtime answers non-2xx, the record
\* in the monitor's replica ends with status error and error ConnectionError.
C21_ConnectionErrorIsRecorded ==
  [][\A m \in Monitors, s \in 1..MaxTasks :
       ExecuteThrows(m, s) =>
         /\ StatusAt(m)' = "error"
         /\ Get(World, m)'.error = "ConnectionError"]_vars

\* the texts an observer of the shared text has seen, the first included
Observed == <<doc0>> \o txns

\* C22: no observer of the text sees the region of the execution, once it
\* holds content, empty: every content written here is non-empty, so that an
\* empty region after a non-empty one is the state between replaceOutput's
\* delete and its insert.
C22_ReplaceIsOneChange ==
  \A k \in 1..(Len(Observed) - 1) :
    /\ HasMarkerLine(Observed[k], ExecId)
    /\ hasOutputBlock(Observed[k], ExecId)
    /\ getOutputContent(Observed[k], ExecId) # <<>>
    => getOutputContent(Observed[k + 1], ExecId) # <<>>

\* C23: when disconnect() returns no execution is registered as active and
\* every execute that is awaiting the runtime has been aborted, so that it
\* resolves with the Aborted result; afterwards the monitor is not
\* connected, receives nothing and starts no handler.
C23_DisconnectCancelsEverything ==
  [][\A m \in Monitors :
       /\ synced[m] /\ ~synced'[m] =>
            /\ active'[m] = 0
            /\ \A s \in 1..MaxTasks :
                 tasks'[m][s].pc \in {"fetch", "stream"} => tasks'[m][s].aborted
       /\ ~synced[m] =>
            /\ ~synced'[m]
            /\ known'[m] = known[m]
            /\ \A s \in 1..MaxTasks :
                 tasks[m][s].pc = "idle" => tasks'[m][s].pc = "idle"]_vars

\* the setRunning writes and so the execute calls of monitor m
Runs(m) == {i \in 1..Len(items) : items[i].client = m /\ items[i].op = "setRunning"}

\* C24: a monitor writes running and calls execute at most once for the
\* execution, however often its observer fires for the ready record.
C24_OneStreamPerExecution ==
  \A m \in Monitors : Cardinality(Runs(m)) <= 1

\* C25: a data line whose payload does not parse invokes no callback and
\* leaves the stream open and the current event as they were; a data line
\* that parses is dispatched to the callback of the current event, whatever
\* was read before it.
C25_UnparseableLineIsSkipped ==
  [][lines' # lines =>
       LET line == lines'[Len(lines')]
       IN /\ tasks'[Caller][1].pc = "stream"
          /\ line = DataLine("garbage") =>
               callbacks' = callbacks /\ currentEvent' = currentEvent
          /\ line = DataLine("json") =>
               callbacks' = callbacks \o CallbackOf(currentEvent)]_vars

\* C25 witness: a well-formed stdout event was dispatched after a line that
\* did not parse
C25_DispatchedAfterGarbage ==
  /\ Len(lines) >= 3 /\ Len(callbacks) >= 1
  /\ lines[Len(lines) - 2] = DataLine("garbage")
  /\ lines[Len(lines) - 1] = EventLine("stdout")
  /\ lines[Len(lines)] = DataLine("json")
  /\ callbacks[Len(callbacks)] = "onStdout"

Count(seq, x) == Cardinality({k \in 1..Len(seq) : seq[k] = x})

\* the promise of execute has settled
Settled == lastCall.op = "execute"

\* C26: onStart is invoked once, after the ok response and before every
\* other callback; onDone is invoked once and last, exactly when the stream
\* closed normally; nothing is invoked after the promise settled.
C26_CallbackOrder ==
  /\ [](/\ Count(callbacks, "onStart") <= 1
        /\ tasks[Caller][1].pc = "stream" => Count(callbacks, "onStart") = 1
        /\ tasks[Caller][1].pc = "fetch" => callbacks = <<>>
        /\ Count(callbacks, "onStart") = 1 => callbacks[1] = "onStart"
        /\ Count(callbacks, "onStart") = 0 => callbacks \in {<<>>, <<"onError">>}
        /\ Count(callbacks, "onDone") <= 1
        /\ Count(callbacks, "onDone") = 1 <=>
             lastCall = ExecuteReturn(Caller, "result", FALSE, TRUE)
        /\ Count(callbacks, "onDone") = 1 => callbacks[Len(callbacks)] = "onDone")
  /\ [][Settled => callbacks' = callbacks]_vars

\* C26 witness: a stream that closed normally after a stdout event
C26_StartEventDone ==
  /\ Settled
  /\ callbacks = <<"onStart", "onStdout", "onDone">>

\* the chunk of the last write
LastChunk == args[Len(args)]

\* C27: ESC[2J and ESC[3J leave the cursor's row and column as they were.
C27_EraseScreenKeepsCursor ==
  [][args' # args /\ LastChunk' \in {Csi(<<"2">>, "J"), Csi(<<"3">>, "J")}
       => buffer'.row = buffer.row /\ buffer'.col = buffer.col]_vars

\* C28: ESC[0K does to the buffer what ESC[K does, and ESC[0J what ESC[J
\* does.
C28_ZeroIsAbsentParameter ==
  [][/\ args' # args /\ LastChunk' = Csi(<<"0">>, "K")
          => buffer' = write(buffer, Csi(<<>>, "K"))
     /\ args' # args /\ LastChunk' = Csi(<<"0">>, "J")
          => buffer' = write(buffer, Csi(<<>>, "J"))]_vars

\* "hi\rHELLO"
HiHello == <<"h", "i", "\r", "H", "E", "L", "L", "O">>

\* "line1\nline2\r" ESC "[1A" "over"
LineOver ==
  <<"l", "i", "n", "e", "1", "\n", "l", "i", "n", "e", "2", "\r",
    ESC, "[", "1", "A", "o", "v", "e", "r">>

\* C29 as stated: "hi\rHELLO" gives the snapshot "HELLO"; the second
\* example gives row 0 "over" after trimming and row 1 "line2".
C29_OverwriteExamples ==
  /\ chunks = HiHello => Snapshot(buffer) = <<"H", "E", "L", "L", "O">>
  /\ chunks = LineOver =>
       /\ trimEnd(buffer.lines[1]) = <<"o", "v", "e", "r">>
       /\ trimEnd(buffer.lines[2]) = <<"l", "i", "n", "e", "2">>

\* C29: "hi\rHELLO" gives the snapshot "HELLO"; the second example
\* overwrites the first four characters of row 0 in place, so row 0 is
\* "over1", row 1 is "line2" and the cursor is at row 0, column 4.
C29_OverwriteInPlace ==
  /\ chunks = HiHello => Snapshot(buffer) = <<"H", "E", "L", "L", "O">>
  /\ chunks = LineOver =>
       /\ buffer.lines = << <<"o", "v", "e", "r", "1">>,
                            <<"l", "i", "n", "e", "2">> >>
       /\ buffer.row = 0 /\ buffer.col = 4
       /\ Snapshot(buffer) =
            <<"o", "v", "e", "r", "1", "\n", "l", "i", "n", "e", "2">>

C29_SecondExampleWritten == chunks = LineOver /\ Len(args) = 4

\* the body of a chunk "\r" body
BodyOf(chunk) == SubSeq(chunk, 2, Len(chunk))

\* the length of the longest body written so far
LongestBody ==
  IF args = <<>> THEN 0
  ELSE CHOOSE n \in {Len(BodyOf(args[k])) : k \in 1..Len(args)} :
         \A k \in 1..Len(args) : Len(BodyOf(args[k])) <= n

\* C30: after any sequence of chunks "\r" body the projector has one line,
\* the snapshot is no longer than the longest body so far, and when the last
\* body is at least as long as every earlier one the snapshot is that body
\* without its trailing spaces.
C30_ProgressBarCollapse ==
  args # <<>> =>
    /\ Len(buffer.lines) = 1
    /\ Len(Snapshot(buffer)) <= LongestBody
    /\ Len(BodyOf(LastChunk)) = LongestBody
         => Snapshot(buffer) = trimEnd(BodyOf(LastChunk))

\* three redraws: the second body is shorter than the first and the third is
\* the longest so far
C30_RedrawnByLongest ==
  /\ Len(args) >= 3
  /\ Len(BodyOf(args[Len(args) - 1])) < Len(BodyOf(args[Len(args) - 2]))
  /\ Len(BodyOf(LastChunk)) = LongestBody
  /\ Snapshot(buffer) = BodyOf(LastChunk)

C32_ReadmeRequestIsClaimed ==
  /\ lastCall.op = "claimExecution"
  /\ lastCall.by \in Monitors
  /\ lastCall.pre # Absent
  /\ lastCall.pre.status = "requested"
  /\ lastCall.pre.claimedBy = Undefined
  => /\ lastCall.ret
     /\ lastCall.post.status = "claimed"
     /\ lastCall.post.claimedBy = lastCall.by

\* the request fields of a record
RequestFields(exec) == <<exec.runtimeUrl, exec.session, exec.requestedBy>>

\* C33: a stdin or display mutator leaves status, claimedBy, the request
\* fields, result and error as they were; setRunning, setCompleted and
\* setError leave claimedBy, the request fields, stdinRequest and
\* stdinResponse as they were; a mutator called for an execId that is not in
\* the map writes nothing and creates no record.
C33_MutatorsChangeOnlyTheirFields ==
  lastCall.op \in StdinOps \cup RunOps =>
    LET pre == lastCall.pre
        post == lastCall.post
    IN IF pre = Absent THEN post = Absent /\ ~lastCall.wrote
       ELSE /\ post # Absent
            /\ post.claimedBy = pre.claimedBy
            /\ RequestFields(post) = RequestFields(pre)
            /\ lastCall.op \in StdinOps =>
                 /\ post.status = pre.status
                 /\ post.result = pre.result
                 /\ post.error = pre.error
            /\ lastCall.op \in RunOps =>
                 /\ post.stdinRequest = pre.stdinRequest
                 /\ post.stdinResponse = pre.stdinResponse

\* requestStdin wrote a record that another peer had claimed
C33_PromptOnClaimedRecord ==
  /\ lastCall.op = "requestStdin" /\ lastCall.wrote
  /\ lastCall.pre.status = "claimed"
  /\ lastCall.pre.claimedBy # lastCall.by

\* execute before its first read: currentEvent = null, buffer = ''
InitialRead == [cur |-> Null, cbs |-> <<>>, buf |-> <<>>]

\* the callbacks a stream invokes when it is read in one chunk
Dispatched(stream) == readChunk(InitialRead, stream).cbs

\* C34: however the transport has cut the stream, the callbacks invoked so
\* far, the current event and the incomplete line are those of the stream
\* read in one chunk, and when the stream has closed every data line in it,
\* the last one included, has been dispatched before onDone.
C34_DispatchIsIndependentOfChunking ==
  LET whole == readChunk(InitialRead, chunks)
  IN /\ ~done => /\ callbacks = whole.cbs
                 /\ currentEvent = whole.cur
                 /\ sseBuffer = whole.buf
     /\ done => callbacks = Append(Dispatched(chunks \o <<"\n">>),
                                   [name |-> "onDone", data |-> <<>>])

\* the stdinResponse values the browser has written
Responses == {i \in 1..Len(items) : items[i].op = "respondStdin"}

\* C35: the monitor makes no more POSTs to /input than the browser has
\* written responses: a response is forwarded once, whatever else is
\* observed while the forward is in flight.
C35_ResponseForwardedOnce == Len(posts) <= Cardinality(Responses)

\* C36: a stdinRequest leaves a monitor's record only when the record holds
\* a response to it: clearStdinRequest does not null a request that has not
\* been answered.
C36_NoStdinRequestIsLost ==
  [][\A m \in Monitors :
       /\ known[m] # {}
       /\ Get(World, m).stdinRequest # Null
       /\ Get(World, m).status = "running"
       /\ Get(World', m).stdinRequest = Null
       => Get(World, m).stdinResponse # Null]_vars

\* C37: while an execute call of a monitor is in flight, its POST went to the
\* record's runtimeUrl with the record's session in the body.
C37_DriveUsesTheRecordsSession ==
  \A m \in Monitors, s \in 1..MaxTasks :
    tasks[m][s].pc \in {"fetch", "stream"} /\ known[m] # {} =>
      /\ tasks[m][s].req.url = <<Get(World, m).runtimeUrl, "/execute/stream">>
      /\ tasks[m][s].req.body.session = Get(World, m).session

\* C38: after replaceOutput(execId, X) on a text that holds the region of
\* execId, getOutputContent(execId) is X and the region's contentStart is
\* where it was.
C38_ReplaceThenReadBack ==
  [][/\ Len(calls') = Len(calls) + 1
     /\ calls'[Len(calls')] = "replaceOutput"
     /\ HasMarkerLine(ytext, ExecId)
     /\ findOutputBlock(ytext, ExecId).found
     => /\ findOutputBlock(ytext', ExecId).found
        /\ getOutputContent(ytext', ExecId) = args'[Len(args')]
        /\ findOutputBlock(ytext', ExecId).contentStart
             = findOutputBlock(ytext, ExecId).contentStart]_vars

\* the execute calls of m that have started and have neither settled nor
\* been aborted
InFlight(m) == {s \in 1..MaxTasks : tasks[m][s].pc \in {"fetch", "stream"}
                                    /\ ~tasks[m][s].aborted}

\* C39: isActive(execId) is true exactly when an execute call for execId is
\* in flight, and activeCount is the number of such calls.
C39_RegistryMatchesInFlightCalls ==
  \A m \in Monitors :
    /\ active[m] # 0 <=> InFlight(m) # {}
    /\ (IF active[m] # 0 THEN 1 ELSE 0) = Cardinality(InFlight(m))

\* C40: once the replicas have converged, an execId that is in a monitor's
\* _processingExecutions names a record that this monitor has claimed and
\* that is claimed, ready or running.
C40_ProcessingSetDoesNotLeak ==
  Converged =>
    \A m \in Monitors :
      processing[m] =>
        /\ Get(World, m).claimedBy = m
        /\ Get(World, m).status \in {"claimed", "ready", "running"}

====
